---- MODULE Spec2Model ----
(***************************************************************************)
(* Model of swayimg's mode.c: the action dispatcher mode_handle, the       *)
(* command runner execute_cmd and the path collector collect_paths.        *)
(*                                                                         *)
(* C strings are sequences of one-character strings.  A buffer is a        *)
(* sequence that contains its NUL terminator; CStr reads a buffer the way  *)
(* "%s" and strlen do, up to the first NUL.  A pointer that may be NULL is *)
(* a sequence of length 0 (NULL) or 1 (the pointee).                       *)
(***************************************************************************)
EXTENDS Integers, Sequences, FiniteSets, TLC

\* ------------------------------------------------------------------------
\* Bounds of the model
\* ------------------------------------------------------------------------
NumImages == 2
MaxText == 62

\* ------------------------------------------------------------------------
\* Pointers and C strings
\* ------------------------------------------------------------------------
None == <<>>

Some(x) == <<x>>

NUL == "NUL"

Digits == <<"0", "1", "2", "3", "4", "5", "6", "7", "8", "9">>

Alphabet == <<"a", "b", "c", "d", "e", "f", "g", "h", "i", "j">>

\* bytes of a buffer up to (not including) the first NUL
CStr(buf) ==
    LET nuls == {i \in 1..Len(buf) : buf[i] = NUL}
    IN  IF nuls = {} THEN buf
        ELSE SubSeq(buf, 1, (CHOOSE i \in nuls : \A j \in nuls : i <= j) - 1)

strlen(buf) == Len(CStr(buf))

\* "%d" of snprintf
RECURSIVE Dec(_)
Dec(n) ==
    IF n < 0 THEN <<"-">> \o Dec(0 - n)
    ELSE IF n < 10 THEN <<Digits[n + 1]>>
    ELSE Dec(n \div 10) \o <<Digits[(n % 10) + 1]>>

\* "%.*s" of fprintf: at most size bytes, stopping at a NUL
Printf_precision_s(size, data) == CStr(SubSeq(data, 1, size))

\* str_dup(src, &dst): a fresh NUL terminated copy of the C string src
str_dup(src) == CStr(src) \o <<NUL>>

\* str_append(src, len, &dst): len bytes of src (strlen(src) when len is 0)
\* appended to the C string in dst (dst is NULL or a buffer)
str_append(src, len, dst) ==
    LET src_len == IF len = 0 THEN strlen(src) ELSE len
        old == IF dst = None THEN <<>> ELSE CStr(dst[1])
    IN  old \o SubSeq(src, 1, src_len) \o <<NUL>>

\* memcpy(buf + offset, src, n)
memcpy(buf, offset, src, n) ==
    [i \in 1..Len(buf) |->
        IF i > offset /\ i <= offset + n THEN src[i - offset] ELSE buf[i]]

\* strerror(rc)
strerror(rc) ==
    CASE rc = 1 -> <<"O", "p", "e", "r", "a", "t", "i", "o", "n", " ", "n", "o", "t", " ", "p", "e", "r", "m", "i", "t", "t", "e", "d">>
      [] rc = 13 -> <<"P", "e", "r", "m", "i", "s", "s", "i", "o", "n", " ", "d", "e", "n", "i", "e", "d">>
      [] OTHER -> <<"U", "n", "k", "n", "o", "w", "n", " ", "e", "r", "r", "o", "r", " ">> \o Dec(rc)

\* ------------------------------------------------------------------------
\* String literals of mode.c
\* ------------------------------------------------------------------------
max_status == 60

ellipsis == <<".", ".", ".", NUL>>

sizeof_ellipsis == Len(ellipsis)

SuccessPrefix == <<"S", "u", "c", "c", "e", "s", "s", ":", " ">>

TimeoutPrefix == <<"C", "h", "i", "l", "d", " ", "p", "r", "o", "c", "e", "s", "s", " ", "t", "i", "m", "e", "d", " ", "o", "u", "t", ":", " ">>

ErrorFormat(rc) == <<"E", "r", "r", "o", "r", " ">> \o Dec(rc) \o <<":", " ">>

NoCommandText == <<"E", "r", "r", "o", "r", ":", " ", "n", "o", " ", "c", "o", "m", "m", "a", "n", "d", " ", "t", "o", " ", "e", "x", "e", "c", "u", "t", "e">>

UnhandledFormat(name) == <<"U", "n", "h", "a", "n", "d", "l", "e", "d", " ", "a", "c", "t", "i", "o", "n", ":", " ">> \o name

SHELLCMD_TIMEOUT == 256

\* ------------------------------------------------------------------------
\* Collaborators of mode.c: image list, shell command, mode
\* ------------------------------------------------------------------------
\* img->source of the i-th image of the list
Source(i) == <<"/", "i", "m", "g">> \o Dec(i)

\* the image list in imglist_first / imglist_next(img, false) order
Images == 1..NumImages

\* n bytes of text whose every byte depends on its position
Fill(abc, n) == [i \in 1..n |-> abc[((i - 1) % 10) + 1]]

Upper == <<"A", "B", "C", "D", "E", "F", "G", "H", "I", "J">>

PLACEHOLDER == "{}"

\* the paths of a NULL terminated array, separated by spaces
RECURSIVE JoinPaths(_, _)
JoinPaths(paths, i) ==
    IF i > Len(paths) \/ paths[i] = None THEN <<>>
    ELSE (IF i > 1 THEN <<" ">> ELSE <<>>) \o paths[i][1] \o JoinPaths(paths, i + 1)

\* the expression from its i-th character on, paths put in place of every
\* placeholder
RECURSIVE Expand(_, _, _)
Expand(expr, paths, i) ==
    IF i > Len(expr) THEN <<>>
    ELSE (IF expr[i] = PLACEHOLDER THEN JoinPaths(paths, 1) ELSE <<expr[i]>>)
         \o Expand(expr, paths, i + 1)

\* shellcmd_expr(expr, paths): the command string, NULL when there is none
shellcmd_expr(expr, paths) ==
    LET cmd == Expand(expr, paths, 1)
    IN  IF cmd = <<>> THEN None ELSE Some(cmd \o <<NUL>>)

\* a result of shellcmd_exec(cmd, &out, &err): out and err are NULL or a
\* non-empty array of bytes
ExecResult(rcs, outs, errs) ==
    [rc : rcs, out : {None} \cup {Some(t) : t \in outs}, err : {None} \cup {Some(t) : t \in errs}]

\* what shellcmd_exec can return for the command built from expr and paths:
\* one of results, and nothing when there is no command to run
NoResult == [rc |-> 0, out |-> None, err |-> None]

Outcomes(expr, paths, results) ==
    IF shellcmd_expr(expr, paths) = None THEN {NoResult} ELSE results

\* ------------------------------------------------------------------------
\* execute_cmd
\* ------------------------------------------------------------------------
\* StatusMessage with standard output taking priority over standard error
StatusMessage_OutFirst(rc, out, err, cmd) ==
    IF rc = 0 THEN
        IF out # None THEN str_append(out[1], Len(out[1]), None)
        ELSE str_append(cmd, 0, Some(str_dup(SuccessPrefix)))
    ELSE IF rc = SHELLCMD_TIMEOUT THEN
        str_append(cmd, 0, Some(str_dup(TimeoutPrefix)))
    ELSE
        LET msg == Some(str_dup(ErrorFormat(rc) \o <<NUL>>))
        IN  IF out # None THEN str_append(out[1], Len(out[1]), msg)
            ELSE IF err # None THEN str_append(err[1], Len(err[1]), msg)
            ELSE str_append(strerror(rc), 0, msg)

\* StatusMessage with a successful run reporting standard error when there
\* is no standard output
StatusMessage_ErrOnSuccess(rc, out, err, cmd) ==
    IF rc = 0 THEN
        IF out # None THEN str_append(out[1], Len(out[1]), None)
        ELSE IF err # None THEN str_append(err[1], Len(err[1]), None)
        ELSE str_append(cmd, 0, Some(str_dup(SuccessPrefix)))
    ELSE IF rc = SHELLCMD_TIMEOUT THEN
        str_append(cmd, 0, Some(str_dup(TimeoutPrefix)))
    ELSE
        LET msg == Some(str_dup(ErrorFormat(rc) \o <<NUL>>))
        IN  IF err # None THEN str_append(err[1], Len(err[1]), msg)
            ELSE IF out # None THEN str_append(out[1], Len(out[1]), msg)
            ELSE str_append(strerror(rc), 0, msg)

\* StatusMessage without the branch of the timeout
StatusMessage_NoTimeout(rc, out, err, cmd) ==
    IF rc = 0 THEN
        IF out # None THEN str_append(out[1], Len(out[1]), None)
        ELSE str_append(cmd, 0, Some(str_dup(SuccessPrefix)))
    ELSE
        LET msg == Some(str_dup(ErrorFormat(rc) \o <<NUL>>))
        IN  IF err # None THEN str_append(err[1], Len(err[1]), msg)
            ELSE IF out # None THEN str_append(out[1], Len(out[1]), msg)
            ELSE str_append(strerror(rc), 0, msg)

\* the message composed from the result of the command
StatusMessage(rc, out, err, cmd) ==
    IF rc = 0 THEN
        IF out # None THEN str_append(out[1], Len(out[1]), None)
        ELSE str_append(cmd, 0, Some(str_dup(SuccessPrefix)))
    ELSE IF rc = SHELLCMD_TIMEOUT THEN
        str_append(cmd, 0, Some(str_dup(TimeoutPrefix)))
    ELSE
        LET desc == ErrorFormat(rc) \o <<NUL>>
            msg == Some(str_dup(desc))
        IN  IF err # None THEN str_append(err[1], Len(err[1]), msg)
            ELSE IF out # None THEN str_append(out[1], Len(out[1]), msg)
            ELSE str_append(strerror(rc), 0, msg)

\* TrimStatus copying the ellipsis without its terminator over the last
\* three of the first max_status characters
TrimStatus_NoTerminator(msg) ==
    IF strlen(msg) > max_status
    THEN memcpy(msg, max_status - (sizeof_ellipsis - 1), ellipsis, sizeof_ellipsis - 1)
    ELSE msg

\* TrimStatus trimming a message of max_status characters too
TrimStatus_AtLimit(msg) ==
    IF strlen(msg) >= max_status
    THEN memcpy(msg, max_status - sizeof_ellipsis, ellipsis, sizeof_ellipsis)
    ELSE msg

\* trim long output text
TrimStatus(msg) ==
    IF strlen(msg) > max_status
    THEN memcpy(msg, max_status - sizeof_ellipsis, ellipsis, sizeof_ellipsis)
    ELSE msg

\* the early return of execute_cmd
NoCommand(cmd) == cmd = None

\* NoCommandReturn without the return: the command is run all the same
NoCommandReturn_FallThrough ==
    [cmd |-> None, res |-> Some(NoResult), msg |-> None,
     status |-> NoCommandText, out_w |-> None, err_w |-> None,
     calls |-> <<"shellcmd_expr", "info_update", "app_redraw", "shellcmd_exec",
                 "info_update", "free_cmd", "free_msg", "arr_free_out",
                 "arr_free_err", "app_redraw">>]

\* what execute_cmd does when there is no command
NoCommandReturn ==
    [cmd |-> None, res |-> None, msg |-> None,
     status |-> NoCommandText, out_w |-> None, err_w |-> None,
     calls |-> <<"shellcmd_expr", "info_update", "app_redraw">>]

\* the calls that compose the message, in order
ComposeCalls(rc, out, err) ==
    IF rc = 0 THEN
        IF out # None THEN <<"str_append_out">>
        ELSE <<"str_dup", "str_append_cmd">>
    ELSE IF rc = SHELLCMD_TIMEOUT THEN <<"str_dup", "str_append_cmd">>
    ELSE <<"snprintf", "str_dup">>
         \o (IF err # None THEN <<"str_append_err">>
             ELSE IF out # None THEN <<"str_append_out">>
             ELSE <<"str_append_strerror">>)

\* the calls that trim the message
TrimCalls(msg) ==
    IF strlen(msg) > max_status THEN <<"strlen_msg", "memcpy_msg">>
    ELSE <<"strlen_msg">>

\* ReleaseCalls without the release of the message
ReleaseCalls_LeakMsg == <<"free_cmd", "arr_free_out", "arr_free_err">>

\* the release of the buffers at the end of execute_cmd
ReleaseCalls == <<"free_cmd", "free_msg", "arr_free_out", "arr_free_err">>

\* What one call of execute_cmd does, res being what shellcmd_exec returns
\* if it is called: the command, the result, the composed message, the
\* status line published, the bytes written to stdout and stderr, and the
\* calls made, in order.
execute_cmd(expr, paths, res) ==
    LET cmd == shellcmd_expr(expr, paths)
    IN  IF NoCommand(cmd) THEN NoCommandReturn
        ELSE
            LET msg == StatusMessage(res.rc, res.out, res.err, cmd[1])
            IN  [cmd |-> cmd, res |-> Some(res), msg |-> Some(msg),
                 status |-> CStr(TrimStatus(msg)),
                 out_w |-> IF res.out # None
                           THEN Some(Printf_precision_s(Len(res.out[1]), res.out[1]))
                           ELSE None,
                 err_w |-> IF res.err # None
                           THEN Some(Printf_precision_s(Len(res.err[1]), res.err[1]))
                           ELSE None,
                 calls |-> <<"shellcmd_expr", "shellcmd_exec">>
                           \o (IF res.out # None THEN <<"fprintf_stdout">> ELSE <<>>)
                           \o (IF res.err # None THEN <<"fprintf_stderr">> ELSE <<>>)
                           \o ComposeCalls(res.rc, res.out, res.err)
                           \o TrimCalls(msg)
                           \o <<"info_update">> \o ReleaseCalls \o <<"app_redraw">>]

\* ------------------------------------------------------------------------
\* collect_paths
\* ------------------------------------------------------------------------
\* first loop: the number of marked images from image i on
RECURSIVE CountMarked(_, _)
CountMarked(m, i) ==
    IF i > NumImages THEN 0
    ELSE (IF m[i] THEN 1 ELSE 0) + CountMarked(m, i + 1)

\* FillPaths iterating the list backwards
RECURSIVE FillPaths_Backwards(_, _)
FillPaths_Backwards(m, i) ==
    IF i > NumImages THEN <<None>>
    ELSE (IF m[NumImages + 1 - i] THEN <<Some(Source(NumImages + 1 - i))>> ELSE <<>>)
         \o FillPaths_Backwards(m, i + 1)

\* second loop: the sources of the marked images from image i on, then NULL
RECURSIVE FillPaths(_, _)
FillPaths(m, i) ==
    IF i > NumImages THEN <<None>>
    ELSE (IF m[i] THEN <<Some(Source(i))>> ELSE <<>>) \o FillPaths(m, i + 1)

\* collect_paths without the early return for no marked image
collect_paths_NoEarlyReturn(m, malloc_ok) ==
    IF ~malloc_ok THEN None ELSE Some(FillPaths(m, 1))

\* collect_paths(): NULL or a NULL terminated array of paths; malloc_ok
\* tells whether malloc returns memory
collect_paths(m, malloc_ok) ==
    IF CountMarked(m, 1) = 0 THEN None
    ELSE IF ~malloc_ok THEN None
    ELSE Some(FillPaths(m, 1))

\* the modes of the application and what Mode.get_keybinds() returns
Modes == {"viewer", "gallery"}

get_keybinds(mode) == <<"keybinds", mode>>

\* action types the dispatcher has no case for, and action_typename() of each
OtherActions == {"next_file", "zoom"}

\* an action type no mode handles, with a name of more than 42 characters
LongAction == "long"

LongTypeName == Fill(Alphabet, MaxText - 18)

ManyActions == OtherActions \cup {LongAction}

action_typename(type) ==
    IF type = "zoom" THEN <<"z", "o", "o", "m">>
    ELSE IF type = LongAction THEN LongTypeName
    ELSE <<"n", "e", "x", "t", "_", "f", "i", "l", "e">>

\* Mode.handle_action(): whether the mode handles the action
handle_action(mode, type) ==
    type = "next_file" \/ (type = "zoom" /\ mode = "viewer")

\* names of the info panels
InfoModes == {"off", "viewer"}

\* ------------------------------------------------------------------------
\* Inputs
\* ------------------------------------------------------------------------
ShortExpr == <<"i", "d", " ", PLACEHOLDER>>

LongExpr == Fill(Alphabet, MaxText - 12) \o <<" ", PLACEHOLDER>>

FewExprs == {<<>>, ShortExpr}

ManyExprs == {<<>>, ShortExpr, LongExpr}

NulText == <<"x", NUL, "y">>

ErrNulText == <<"X", NUL, "Y">>

StatusParams == {<<"h", "i">>}

\* results of the command in the dispatcher's specification
FewResults ==
    {[rc |-> 0, out |-> Some(Fill(Alphabet, 2)), err |-> None],
     [rc |-> 0, out |-> None, err |-> Some(Fill(Upper, 1))],
     [rc |-> 1, out |-> Some(Fill(Alphabet, 2)), err |-> Some(Fill(Upper, 1))],
     [rc |-> 1, out |-> None, err |-> None],
     [rc |-> SHELLCMD_TIMEOUT, out |-> None, err |-> None]}

\* results of the command in the command runner's specification
TextLens == {1, 50, 51, 52, 59, 60, 61, MaxText}

ManyResults ==
    ExecResult({0, 1, 13, SHELLCMD_TIMEOUT},
               {Fill(Alphabet, n) : n \in TextLens} \cup {NulText},
               {Fill(Upper, n) : n \in TextLens} \cup {ErrNulText})

\* ------------------------------------------------------------------------
\* State
\* ------------------------------------------------------------------------
VARIABLES
    marked,         \* img->marked of every image of the list
    current,        \* the image Mode.get_current() returns
    mark_shown,     \* the mark indicator of the info block
    help,           \* NULL when the help overlay is hidden, else its content
    fullscreen,     \* the fullscreen flag of the UI
    info_mode,      \* the info panel displayed
    curmode,        \* the active mode
    status,         \* the status line
    app_exit_code,  \* NULL while the application runs, else its exit code
    last            \* the last call of mode_handle: its action and its calls

vars == <<marked, current, mark_shown, help, fullscreen, info_mode, curmode,
          status, app_exit_code, last>>

help_visible == help # None

Running == app_exit_code = None

\* the record of a call of mode_handle that did not call execute_cmd
Handled(type, calls) ==
    [type |-> type, params |-> <<>>, paths |-> None, cmd |-> None,
     res |-> None, msg |-> None, out_w |-> None, err_w |-> None,
     calls |-> calls]

\* the record of a call of mode_handle that called execute_cmd, r being
\* what execute_cmd did
Executed(type, params, paths, r, before, after) ==
    [type |-> type, params |-> params, paths |-> Some(paths), cmd |-> r.cmd,
     res |-> r.res, msg |-> r.msg, out_w |-> r.out_w, err_w |-> r.err_w,
     calls |-> before \o r.calls \o after]

Init ==
    /\ marked = [i \in Images |-> FALSE]
    /\ current = 1
    /\ mark_shown = FALSE
    /\ help = None
    /\ fullscreen = FALSE
    /\ info_mode = "off"
    /\ curmode = "viewer"
    /\ status = <<>>
    /\ app_exit_code = None
    /\ last = Handled("none", <<>>)

\* ------------------------------------------------------------------------
\* mode_handle, one action per case of the switch
\* ------------------------------------------------------------------------
\* action_info passing the action on to the mode as well
action_info_Delegate(params) ==
    /\ Running
    /\ info_mode' = params
    /\ last' = Handled("action_info", <<"info_switch", "handle_action", "app_redraw">>)
    /\ UNCHANGED <<marked, current, mark_shown, help, fullscreen, curmode,
                   status, app_exit_code>>

action_info(params) ==
    /\ Running
    /\ info_mode' = params
    /\ last' = Handled("action_info", <<"info_switch", "app_redraw">>)
    /\ UNCHANGED <<marked, current, mark_shown, help, fullscreen, curmode,
                   status, app_exit_code>>

\* action_status requesting the redraw before it updates the status
action_status_RedrawFirst(params) ==
    /\ Running
    /\ status' = CStr(params \o <<NUL>>)
    /\ last' = Handled("action_status", <<"app_redraw", "info_update">>)
    /\ UNCHANGED <<marked, current, mark_shown, help, fullscreen, info_mode,
                   curmode, app_exit_code>>

action_status(params) ==
    /\ Running
    /\ status' = CStr(params \o <<NUL>>)
    /\ last' = Handled("action_status", <<"info_update", "app_redraw">>)
    /\ UNCHANGED <<marked, current, mark_shown, help, fullscreen, info_mode,
                   curmode, app_exit_code>>

\* action_fullscreen requesting a redraw
action_fullscreen_Redraw ==
    /\ Running
    /\ fullscreen' = ~fullscreen
    /\ last' = Handled("action_fullscreen", <<"ui_toggle_fullscreen", "app_redraw">>)
    /\ UNCHANGED <<marked, current, mark_shown, help, info_mode, curmode,
                   status, app_exit_code>>

action_fullscreen ==
    /\ Running
    /\ fullscreen' = ~fullscreen
    /\ last' = Handled("action_fullscreen", <<"ui_toggle_fullscreen">>)
    /\ UNCHANGED <<marked, current, mark_shown, help, info_mode, curmode,
                   status, app_exit_code>>

action_mode(params) ==
    /\ Running
    /\ curmode' = params
    /\ last' = Handled("action_mode", <<"app_switch_mode">>)
    /\ UNCHANGED <<marked, current, mark_shown, help, fullscreen, info_mode,
                   status, app_exit_code>>

\* action_exec running the command on the first image of the list
action_exec_First(params, results) ==
    /\ Running
    /\ LET paths == <<Some(Source(1)), None>>
       IN  \E res \in Outcomes(params, paths, results) :
               LET r == execute_cmd(params, paths, res)
               IN  /\ status' = r.status
                   /\ last' = Executed("action_exec", params, paths, r, <<>>, <<>>)
    /\ UNCHANGED <<marked, current, mark_shown, help, fullscreen, info_mode,
                   curmode, app_exit_code>>

action_exec(params, results) ==
    /\ Running
    /\ LET paths == <<Some(Source(current)), None>>
       IN  \E res \in Outcomes(params, paths, results) :
               LET r == execute_cmd(params, paths, res)
               IN  /\ status' = r.status
                   /\ last' = Executed("action_exec", params, paths, r, <<>>, <<>>)
    /\ UNCHANGED <<marked, current, mark_shown, help, fullscreen, info_mode,
                   curmode, app_exit_code>>

\* image_toggle_marked setting the flag
image_toggle_marked_Set(m, img) == TRUE

\* image_toggle_marked(img): the new value of the flag
image_toggle_marked(m, img) == ~m[img]

action_mark ==
    /\ Running
    /\ marked' = [marked EXCEPT ![current] = image_toggle_marked(marked, current)]
    /\ mark_shown' = marked'[current]
    /\ last' = Handled("action_mark",
                       <<"image_toggle_marked", "info_update_mark", "app_redraw">>)
    /\ UNCHANGED <<current, help, fullscreen, info_mode, curmode, status,
                   app_exit_code>>

\* whether execute-on-marked runs the command on what collect_paths returned
HasPaths(paths) == paths # None

\* what malloc can do in collect_paths: it is not called without marked images
MallocOutcomes(m) == IF CountMarked(m, 1) = 0 THEN {TRUE} ELSE BOOLEAN

action_exec_marked(params, results) ==
    /\ Running
    /\ \E malloc_ok \in MallocOutcomes(marked) :
       LET paths == collect_paths(marked, malloc_ok)
           alloc == IF CountMarked(marked, 1) = 0 THEN <<>>
                    ELSE IF malloc_ok THEN <<"malloc">> ELSE <<"malloc_failed">>
       IN  IF HasPaths(paths) THEN
               \E res \in Outcomes(params, paths[1], results) :
                   LET r == execute_cmd(params, paths[1], res)
                   IN  /\ status' = r.status
                       /\ last' = Executed("action_exec_marked", params, paths[1], r,
                                           <<"collect_paths">> \o alloc, <<"free_paths">>)
           ELSE
               /\ status' = status
               /\ last' = Handled("action_exec_marked", <<"collect_paths">> \o alloc)
    /\ UNCHANGED <<marked, current, mark_shown, help, fullscreen, info_mode,
                   curmode, app_exit_code>>

\* action_help showing the keybindings of the viewer whatever the mode
action_help_ViewerKeys ==
    /\ Running
    /\ IF help_visible
       THEN /\ help' = None
            /\ last' = Handled("action_help", <<"help_visible", "help_hide", "app_redraw">>)
       ELSE /\ help' = Some(get_keybinds("viewer"))
            /\ last' = Handled("action_help",
                               <<"help_visible", "get_keybinds", "help_show", "app_redraw">>)
    /\ UNCHANGED <<marked, current, mark_shown, fullscreen, info_mode, curmode,
                   status, app_exit_code>>

action_help ==
    /\ Running
    /\ IF help_visible
       THEN /\ help' = None
            /\ last' = Handled("action_help", <<"help_visible", "help_hide", "app_redraw">>)
       ELSE /\ help' = Some(get_keybinds(curmode))
            /\ last' = Handled("action_help",
                               <<"help_visible", "get_keybinds", "help_show", "app_redraw">>)
    /\ UNCHANGED <<marked, current, mark_shown, fullscreen, info_mode, curmode,
                   status, app_exit_code>>

\* action_exit without the test of the help overlay
action_exit_Always ==
    /\ Running
    /\ help' = help
    /\ app_exit_code' = Some(0)
    /\ last' = Handled("action_exit", <<"app_exit">>)
    /\ UNCHANGED <<marked, current, mark_shown, fullscreen, info_mode, curmode,
                   status>>

\* action_exit passing on the exit code of the last command
action_exit_LastCode ==
    /\ Running
    /\ IF help_visible
       THEN /\ help' = None
            /\ app_exit_code' = app_exit_code
            /\ last' = Handled("action_exit", <<"help_visible", "help_hide", "app_redraw">>)
       ELSE /\ help' = help
            /\ app_exit_code' = Some(IF last.res # None THEN last.res[1].rc ELSE 0)
            /\ last' = Handled("action_exit", <<"help_visible", "app_exit">>)
    /\ UNCHANGED <<marked, current, mark_shown, fullscreen, info_mode, curmode,
                   status>>

action_exit ==
    /\ Running
    /\ IF help_visible
       THEN /\ help' = None
            /\ app_exit_code' = app_exit_code
            /\ last' = Handled("action_exit", <<"help_visible", "help_hide", "app_redraw">>)
       ELSE /\ help' = help
            /\ app_exit_code' = Some(0)
            /\ last' = Handled("action_exit", <<"help_visible", "app_exit">>)
    /\ UNCHANGED <<marked, current, mark_shown, fullscreen, info_mode, curmode,
                   status>>

\* action_default without the redraw for an unhandled action
action_default_NoRedraw(type) ==
    /\ Running
    /\ IF handle_action(curmode, type)
       THEN /\ current' = IF type = "next_file" THEN (current % NumImages) + 1 ELSE current
            /\ status' = status
            /\ last' = Handled(type, <<"handle_action">>)
       ELSE /\ current' = current
            /\ status' = CStr(UnhandledFormat(action_typename(type)) \o <<NUL>>)
            /\ last' = Handled(type, <<"handle_action", "info_update">>)
    /\ UNCHANGED <<marked, mark_shown, help, fullscreen, info_mode, curmode,
                   app_exit_code>>

\* action_default trimming the status of an unhandled action as execute_cmd
\* trims its message
action_default_Trim(type) ==
    /\ Running
    /\ IF handle_action(curmode, type)
       THEN /\ current' = IF type = "next_file" THEN (current % NumImages) + 1 ELSE current
            /\ status' = status
            /\ last' = Handled(type, <<"handle_action">>)
       ELSE /\ current' = current
            /\ status' = CStr(TrimStatus(UnhandledFormat(action_typename(type)) \o <<NUL>>))
            /\ last' = Handled(type, <<"handle_action", "info_update", "app_redraw">>)
    /\ UNCHANGED <<marked, mark_shown, help, fullscreen, info_mode, curmode,
                   app_exit_code>>

action_default(type) ==
    /\ Running
    /\ IF handle_action(curmode, type)
       THEN /\ current' = IF type = "next_file" THEN (current % NumImages) + 1 ELSE current
            /\ status' = status
            /\ last' = Handled(type, <<"handle_action">>)
       ELSE /\ current' = current
            /\ status' = CStr(UnhandledFormat(action_typename(type)) \o <<NUL>>)
            /\ last' = Handled(type, <<"handle_action", "info_update", "app_redraw">>)
    /\ UNCHANGED <<marked, mark_shown, help, fullscreen, info_mode, curmode,
                   app_exit_code>>

\* ------------------------------------------------------------------------
\* Specifications
\* ------------------------------------------------------------------------
\* the dispatcher, with every action and few command results
Next ==
    \/ \E p \in InfoModes : action_info(p)
    \/ \E p \in StatusParams : action_status(p)
    \/ action_fullscreen
    \/ \E p \in Modes : action_mode(p)
    \/ \E p \in FewExprs : action_exec(p, FewResults)
    \/ action_mark
    \/ \E p \in FewExprs : action_exec_marked(p, FewResults)
    \/ action_help
    \/ action_exit
    \/ \E t \in OtherActions : action_default(t)

Spec == Init /\ [][Next]_vars

\* the command runner: one command, with many results, or one action the
\* dispatcher has no case for, run from any state of the image list
InitRun ==
    /\ marked \in [Images -> BOOLEAN]
    /\ current \in Images
    /\ mark_shown = marked[current]
    /\ help = None
    /\ fullscreen = FALSE
    /\ info_mode = "off"
    /\ curmode = "viewer"
    /\ status = <<>>
    /\ app_exit_code = None
    /\ last = Handled("none", <<>>)

NextRun ==
    /\ last.type = "none"
    /\ \/ \E p \in ManyExprs : action_exec(p, ManyResults)
       \/ \E p \in ManyExprs : action_exec_marked(p, ManyResults)
       \/ \E t \in ManyActions : action_default(t)

SpecRun == InitRun /\ [][NextRun]_vars

\* ------------------------------------------------------------------------
\* Properties
\* ------------------------------------------------------------------------
\* the number of redraw requests of the last call of mode_handle
Redraws(calls) == Cardinality({i \in DOMAIN calls : calls[i] = "app_redraw"})

Called(calls, name) == \E i \in DOMAIN calls : calls[i] = name

\* the last call of mode_handle ran a command, which returned rc, out, err
Ran == last.res # None

Rc == last.res[1].rc

Out == last.res[1].out

Err == last.res[1].err

\* the message composed, without its terminator
Msg == SubSeq(last.msg[1], 1, Len(last.msg[1]) - 1)

\* the command string built
Cmd == SubSeq(last.cmd[1], 1, Len(last.cmd[1]) - 1)

IsText(t) == \A i \in DOMAIN t : t[i] # NUL

Dots == <<".", ".", ".">>

IsPrefix(p, t) == Len(p) <= Len(t) /\ SubSeq(t, 1, Len(p)) = p

\* the number a string of decimal digits denotes
RECURSIVE DigitsValue(_)
DigitsValue(d) ==
    IF d = <<>> THEN 0
    ELSE 10 * DigitsValue(SubSeq(d, 1, Len(d) - 1))
         + (CHOOSE v \in 0..9 : Digits[v + 1] = d[Len(d)])

\* t is "Error <c>: " followed by rest, c in decimal without leading zeros
IsErrorForm(t, c, rest) ==
    \E n \in 1..4 :
        /\ Len(t) = 8 + n + Len(rest)
        /\ SubSeq(t, 1, 6) = <<"E", "r", "r", "o", "r", " ">>
        /\ \A i \in 7..(6 + n) : \E v \in 1..10 : Digits[v] = t[i]
        /\ n > 1 => t[7] # "0"
        /\ DigitsValue(SubSeq(t, 7, 6 + n)) = c
        /\ SubSeq(t, 7 + n, 8 + n) = <<":", " ">>
        /\ SubSeq(t, 9 + n, Len(t)) = rest

\* C1 as stated: a successful run that captured the text T on standard
\* output publishes T when T has at most 60 characters, and else the first
\* 57 characters of T followed by "...", 60 characters in all.
C1_Original ==
    (Ran /\ Rc = 0 /\ Out # None /\ IsText(Out[1])) =>
        LET T == Out[1]
        IN  /\ Len(T) <= 60 => status = T
            /\ Len(T) > 60 => Len(status) = 60 /\ status = SubSeq(T, 1, 57) \o Dots

\* C1 as amended: a successful run that captured the text T on standard
\* output publishes T when T has at most 60 characters, and else the first
\* 56 characters of T followed by "...", 59 characters in all.
C1_Truncation ==
    (Ran /\ Rc = 0 /\ Out # None /\ IsText(Out[1])) =>
        LET T == Out[1]
        IN  /\ Len(T) <= 60 => status = T
            /\ Len(T) > 60 => Len(status) = 59 /\ status = SubSeq(T, 1, 56) \o Dots

C1_Witness ==
    /\ Ran /\ Rc = 0 /\ Out # None /\ IsText(Out[1])
    /\ Len(Out[1]) > 60
    /\ status = SubSeq(Out[1], 1, 56) \o Dots

\* the marked images, and the paths of an array in front of its terminator
MarkedSet == {i \in Images : marked[i]}

\* paths holds the sources of exactly the marked images, in the order of
\* the list, and then the terminator
MarkedInOrder(paths) ==
    /\ Len(paths) = Cardinality(MarkedSet) + 1
    /\ paths[Len(paths)] = None
    /\ \A j \in 1..(Len(paths) - 1) :
           \E i \in MarkedSet :
               /\ Cardinality({k \in MarkedSet : k < i}) = j - 1
               /\ paths[j] = Some(Source(i))

\* C2 as stated: collect_paths returns the sources of exactly the marked
\* images in the order of the list, terminated after the last one, and
\* returns nothing if and only if no image is marked.
C2_Original ==
    last.type = "action_exec_marked" =>
        /\ last.paths = None <=> MarkedSet = {}
        /\ last.paths # None => MarkedInOrder(last.paths[1])

\* C2 as amended: collect_paths returns the sources of exactly the marked
\* images in the order of the list, terminated after the last one, and
\* returns nothing if and only if no image is marked or the array of paths
\* cannot be allocated.
C2_CollectPaths ==
    last.type = "action_exec_marked" =>
        /\ last.paths = None <=>
               (MarkedSet = {} \/ Called(last.calls, "malloc_failed"))
        /\ last.paths # None => MarkedInOrder(last.paths[1])

C2_Witness ==
    /\ last.type = "action_exec_marked"
    /\ Cardinality(MarkedSet) >= 2
    /\ last.paths # None
    /\ MarkedInOrder(last.paths[1])

\* C3: an execute-on-marked action dispatched while no image is marked
\* builds no command, runs no process, leaves the status line as it was
\* and requests no redraw.
C3_NoMarkedNoCommand ==
    [][(last'.type = "action_exec_marked" /\ \A i \in Images : ~marked[i]) =>
          /\ status' = status
          /\ Redraws(last'.calls) = 0
          /\ ~Called(last'.calls, "shellcmd_expr")
          /\ ~Called(last'.calls, "shellcmd_exec")
          /\ last'.paths = None /\ last'.cmd = None /\ last'.res = None]_vars

C3_Witness ==
    /\ last.type = "action_exec_marked"
    /\ \A i \in Images : ~marked[i]
    /\ last.calls = <<"collect_paths">>
    /\ status # <<>>

\* C4: when templating yields no command, execute_cmd runs no process,
\* writes nothing to stdout or stderr, publishes the status message
\* "Error: no command to execute", requests exactly one redraw and does
\* not terminate the application.
C4_NoCommand ==
    (last.paths # None /\ last.cmd = None) =>
        /\ ~Called(last.calls, "shellcmd_exec")
        /\ last.res = None
        /\ last.out_w = None /\ last.err_w = None
        /\ status = NoCommandText
        /\ Redraws(last.calls) = 1
        /\ Running

C4_Witness ==
    /\ last.type = "action_exec_marked"
    /\ last.paths # None /\ last.cmd = None
    /\ status = NoCommandText

\* C5: after a failure with exit code c the composed message is
\* "Error c: ", c in decimal, followed by the captured standard error if
\* there is one, else the captured standard output if there is one, else
\* the description of c.
C5_FailureMessage ==
    (Ran /\ Rc # 0 /\ Rc # SHELLCMD_TIMEOUT) =>
        IsErrorForm(Msg, Rc, IF Err # None THEN Err[1]
                             ELSE IF Out # None THEN Out[1]
                             ELSE strerror(Rc))

C5_Witness ==
    /\ Ran /\ Rc = 13 /\ Err # None /\ Out # None
    /\ IsErrorForm(Msg, 13, Err[1])

\* C6: after a run that exits with code 0 the composed message is the
\* captured standard output if there is one, and else "Success: "
\* followed by the command string; standard error is not used.
C6_SuccessMessage ==
    (Ran /\ Rc = 0) =>
        Msg = IF Out # None THEN Out[1] ELSE SuccessPrefix \o Cmd

C6_Witness ==
    /\ Ran /\ Rc = 0 /\ Out = None /\ Err # None
    /\ Msg = SuccessPrefix \o Cmd

\* C7: a timeout is told from success and failure: its message is "Child
\* process timed out: " followed by the command string whatever was
\* captured, the published status starts with "Child process timed out: ",
\* and neither has the form of an error; no other result has this message.
C7_TimeoutMessage ==
    Ran =>
        /\ Rc = SHELLCMD_TIMEOUT =>
               /\ Msg = TimeoutPrefix \o Cmd
               /\ IsPrefix(TimeoutPrefix, status)
               /\ ~IsPrefix(<<"E", "r", "r", "o", "r", " ">>, Msg)
               /\ ~IsPrefix(<<"E", "r", "r", "o", "r", " ">>, status)
        /\ Rc # SHELLCMD_TIMEOUT => ~IsPrefix(TimeoutPrefix, Msg)

C7_Witness ==
    /\ Ran /\ Rc = SHELLCMD_TIMEOUT /\ Out # None /\ Err # None
    /\ IsPrefix(TimeoutPrefix, status)
    /\ Len(Msg) > max_status

\* C8: an exit action dispatched while the help overlay is visible hides
\* the overlay, requests exactly one redraw and does not terminate the
\* application; dispatched while the overlay is hidden it terminates the
\* application with code 0 and requests no redraw.
C8_Exit ==
    [][last'.type = "action_exit" =>
          IF help # None
          THEN help' = None /\ Redraws(last'.calls) = 1 /\ app_exit_code' = None
          ELSE app_exit_code' = Some(0) /\ Redraws(last'.calls) = 0]_vars

C8_Witness ==
    /\ last.type = "action_exit"
    /\ Called(last.calls, "help_hide")
    /\ help = None
    /\ Redraws(last.calls) = 1
    /\ Running

\* C9: the application is terminated only by an exit action dispatched
\* while the help overlay is hidden, and then with exit code 0, whatever
\* commands ran before and however they ended.
C9_OnlyExitTerminates ==
    [][app_exit_code' # app_exit_code =>
          /\ last'.type = "action_exit"
          /\ help = None
          /\ app_exit_code = None
          /\ app_exit_code' = Some(0)]_vars

C9_Witness ==
    /\ app_exit_code = Some(0)
    /\ last.type = "action_exit"
    /\ IsPrefix(<<"E", "r", "r", "o", "r", " ", "1">>, status)

\* C10: a toggle-help action dispatched while the help overlay is hidden
\* shows it with the keybindings of the current mode, dispatched while it
\* is visible hides it, and requests exactly one redraw either way; two
\* toggle-help actions in a row restore the visibility.
C10_ToggleHelp ==
    [][last'.type = "action_help" =>
          /\ IF help = None
             THEN help' = Some(get_keybinds(curmode))
             ELSE help' = None
          /\ Redraws(last'.calls) = 1
          /\ last.type = "action_help" =>
                 (help' # None <=> Called(last.calls, "help_hide"))]_vars

C10_Witness ==
    /\ last.type = "action_help"
    /\ curmode = "gallery"
    /\ help = Some(get_keybinds("gallery"))
    /\ Redraws(last.calls) = 1

\* the number of calls of name in the last call of mode_handle
Count(calls, name) == Cardinality({i \in DOMAIN calls : calls[i] = name})

BuiltinTypes ==
    {"action_info", "action_status", "action_fullscreen", "action_mode",
     "action_exec", "action_mark", "action_exec_marked", "action_help",
     "action_exit"}

\* C11: one call of mode_handle requests at most one redraw, and none for
\* toggle-fullscreen, switch-mode, execute-on-marked without a marked image,
\* exit with the help hidden, and an action the mode handles.
C11_AtMostOneRedraw ==
    [][/\ Count(last'.calls, "app_redraw") <= 1
       /\ (\/ last'.type \in {"action_fullscreen", "action_mode"}
           \/ last'.type = "action_exec_marked" /\ \A i \in Images : ~marked[i]
           \/ last'.type = "action_exit" /\ help = None
           \/ last'.type \in ManyActions /\ handle_action(curmode, last'.type))
          => Count(last'.calls, "app_redraw") = 0]_vars

C11_Witness ==
    /\ last.type = "action_exec_marked"
    /\ Ran /\ Out # None /\ Err # None
    /\ Count(last.calls, "app_redraw") = 1

\* C12: for an action type that is none of the nine built-in ones the
\* mode is asked; if it does not handle the action the status line becomes
\* "Unhandled action: <type-name>" and one redraw is requested; if it does,
\* the status line stays and no redraw is requested.
C12_Unhandled ==
    [][last'.type \notin (BuiltinTypes \cup {"none"}) =>
          /\ Count(last'.calls, "handle_action") = 1
          /\ IF handle_action(curmode, last'.type)
             THEN status' = status /\ Count(last'.calls, "app_redraw") = 0
             ELSE /\ status' = <<"U", "n", "h", "a", "n", "d", "l", "e", "d", " ",
                                 "a", "c", "t", "i", "o", "n", ":", " ">>
                               \o action_typename(last'.type)
                  /\ Count(last'.calls, "app_redraw") = 1]_vars

C12_Witness ==
    /\ last.type = "zoom"
    /\ curmode = "gallery"
    /\ status = <<"U", "n", "h", "a", "n", "d", "l", "e", "d", " ",
                  "a", "c", "t", "i", "o", "n", ":", " ", "z", "o", "o", "m">>
    /\ Count(last.calls, "app_redraw") = 1

\* C13: whenever a command was run, the captured standard output is
\* written byte for byte to stdout and the captured standard error to
\* stderr, and nothing is written to a stream that was not captured.
C13_Mirror ==
    Ran =>
        /\ last.out_w = Out
        /\ last.err_w = Err

\* ReleasedOnce: a buffer that was allocated is released by exactly one
\* call of free, made after every call that reads it; a buffer that was
\* not allocated is never read, and free is called for it at most once
ReleasedOnce(calls, allocated, uses, free) ==
    IF allocated
    THEN /\ Count(calls, free) = 1
         /\ \A i, j \in DOMAIN calls :
                (calls[i] \in uses /\ calls[j] = free) => i < j
    ELSE /\ Count(calls, free) <= 1
         /\ \A i \in DOMAIN calls : calls[i] \notin uses

MsgUses ==
    {"str_dup", "str_append_out", "str_append_cmd", "str_append_err",
     "str_append_strerror", "strlen_msg", "memcpy_msg"}

\* C14: when a dispatch returns, the command string, the message, the
\* captured stdout and stderr arrays and the array of marked paths it
\* allocated have each been released exactly once, after their last use,
\* on every path: no command, no marked image, failed allocation, success,
\* timeout and failure.
C14_Released ==
    /\ ReleasedOnce(last.calls, last.cmd # None,
                    {"shellcmd_exec", "str_append_cmd"}, "free_cmd")
    /\ ReleasedOnce(last.calls, last.msg # None, MsgUses, "free_msg")
    /\ ReleasedOnce(last.calls, Ran /\ Out # None,
                    {"fprintf_stdout", "str_append_out"}, "arr_free_out")
    /\ ReleasedOnce(last.calls, Ran /\ Err # None,
                    {"fprintf_stderr", "str_append_err"}, "arr_free_err")
    /\ IF Called(last.calls, "malloc")
       THEN ReleasedOnce(last.calls, TRUE, {"shellcmd_expr"}, "free_paths")
       ELSE Count(last.calls, "free_paths") = 0
    /\ last.msg # None =>
           \A i, j \in DOMAIN last.calls :
               (last.calls[i] = "info_update" /\ last.calls[j] = "free_msg") => i < j

C14_Witness ==
    /\ last.type = "action_exec_marked"
    /\ Called(last.calls, "malloc")
    /\ Ran /\ Out # None /\ Err # None
    /\ \A f \in {"free_cmd", "free_msg", "arr_free_out", "arr_free_err", "free_paths"} :
           Count(last.calls, f) = 1

\* C15: the marked flags change only in a toggle-mark dispatch, which
\* flips the flag of the current image and leaves every other flag.
C15_OnlyToggleMark ==
    [][/\ marked' # marked => last'.type = "action_mark"
       /\ last'.type = "action_mark" =>
              \A i \in Images :
                  marked'[i] = IF i = current THEN ~marked[i] ELSE marked[i]]_vars

C15_Witness ==
    /\ last.type = "action_mark"
    /\ ~marked[current]
    /\ \E i \in Images : marked[i]

\* the full text of the status of an unhandled action
UnhandledText(type) ==
    <<"U", "n", "h", "a", "n", "d", "l", "e", "d", " ",
      "a", "c", "t", "i", "o", "n", ":", " ">> \o action_typename(type)

UnhandledLast == last.type \in ManyActions /\ ~handle_action(curmode, last.type)

\* C16 as stated: the status line published for an unhandled action is
\* never longer than 60 characters, and is cut to 60 characters ending in
\* "..." when the full text is longer.
C16_Original ==
    UnhandledLast =>
        /\ Len(status) <= 60
        /\ Len(UnhandledText(last.type)) > 60 =>
               Len(status) = 60 /\ SubSeq(status, 58, 60) = Dots

\* C16 as amended: the status line published for an unhandled action is
\* the full text "Unhandled action: <type-name>", never cut; it is at most
\* 60 characters long only when the type name has at most 42 characters.
C16_UnhandledNotTrimmed ==
    UnhandledLast =>
        /\ status = UnhandledText(last.type)
        /\ Len(status) <= 60 <=> Len(action_typename(last.type)) <= 42

C16_Witness ==
    /\ UnhandledLast
    /\ Len(status) > 60
    /\ status = UnhandledText(last.type)

\* C17: an execute-on-current action calls execute_cmd exactly once, with
\* its params and the one path of the current image, whatever is marked.
C17_ExecCurrent ==
    last.type = "action_exec" =>
        /\ last.paths = Some(<<Some(Source(current)), None>>)
        /\ Count(last.calls, "shellcmd_expr") = 1
        /\ Count(last.calls, "shellcmd_exec") <= 1
        /\ last.params = ShortExpr => Cmd = <<"i", "d", " ">> \o Source(current)

C17_Witness ==
    /\ last.type = "action_exec"
    /\ last.params = ShortExpr
    /\ Ran
    /\ ~marked[current]
    /\ \E i \in Images : i # current /\ marked[i]
    /\ Cmd = <<"i", "d", " ">> \o Source(current)

\* C18: whatever execute_cmd ends with, the status line it publishes has
\* at most 60 characters, and a composed message of at most 60 characters
\* is published as it is.
C18_StatusBound ==
    last.paths # None =>
        /\ Len(status) <= 60
        /\ (last.msg # None /\ IsText(Msg) /\ Len(Msg) <= 60) => status = Msg

C18_Witness ==
    /\ Ran /\ Rc = 13
    /\ Len(Msg) > 60
    /\ Len(status) = 59

\* the calls that change what the user sees or write to stdout and stderr
UIEffects ==
    {"info_switch", "info_update", "info_update_mark", "help_hide",
     "help_show", "ui_toggle_fullscreen", "app_switch_mode",
     "fprintf_stdout", "fprintf_stderr"}

\* C19: in a dispatch that requests a redraw, no change of the status
\* line, info panel, mark indicator or help overlay and no write to
\* stdout or stderr comes after the redraw request.
C19_RedrawLast ==
    \A i, j \in DOMAIN last.calls :
        (last.calls[i] = "app_redraw" /\ j > i) => last.calls[j] \notin UIEffects

C19_Witness ==
    /\ last.type = "action_exec_marked"
    /\ Ran /\ Out # None
    /\ Len(last.calls) > 2
    /\ last.calls[Len(last.calls)] = "free_paths"
    /\ last.calls[Len(last.calls) - 1] = "app_redraw"
    /\ \E i \in DOMAIN last.calls : last.calls[i] = "fprintf_stdout"

\* C20: a dispatch runs at most one process, and only for execute-on-current
\* and execute-on-marked; it asks the mode at most once, and never for one
\* of the nine built-in action types.
C20_CallsPerDispatch ==
    /\ Count(last.calls, "shellcmd_exec") <= 1
    /\ Count(last.calls, "shellcmd_exec") = 1 =>
           last.type \in {"action_exec", "action_exec_marked"}
    /\ Count(last.calls, "handle_action") <= 1
    /\ last.type \in BuiltinTypes => Count(last.calls, "handle_action") = 0

C20_Witness ==
    /\ last.type = "action_exec"
    /\ Count(last.calls, "shellcmd_exec") = 1
    /\ Count(last.calls, "handle_action") = 0
    /\ status # <<>>
    /\ help # None
====
